---- MODULE Spec2Model ----
(***************************************************************************)
(* Video-to-GIF creator: the segment collection of App.tsx and the segment *)
(* lifecycle of SegmentEditor (extractFrames, handleFrameSelection,        *)
(* generateGif and their asynchronous completions).                        *)
(*                                                                         *)
(* Every asynchronous handler closes over the Segment record of the render *)
(* in which it was invoked; its completion writes {...segment, changes}    *)
(* built from that captured record, through updateSegment, which replaces  *)
(* the record of the same id in the collection.                            *)
(*                                                                         *)
(* Times set by the sliders are multiples of 0.01 s and are held in        *)
(* hundredths of a second; the extraction loop runs on IEEE-754 doubles,   *)
(* held exactly as integers in units of 2^-60 split in two limbs.          *)
(***************************************************************************)
EXTENDS Integers, Sequences, FiniteSets, TLC

\* ------------------------------------------------------------------ bounds
\* milliseconds in which segments are created (upload, addSegment)
MaxSegments == 2
\* records in the collection at a time
MaxRecords == 4
\* extractFrames invocations over a run
MaxExtractions == 2
\* generateGif invocations that launch a generation over a run
MaxGenerations == 2
\* frames of the segment the frame picker is run on by itself
MaxFrames == 4
\* clicks on frames in a run of the frame picker by itself
MaxClicks == 3

\* ------------------------------------------------------- program constants
FRAMES_PER_SECOND == 10
\* timeRange.end of a new segment, in hundredths (end: 1)
DefaultEnd == 100
\* the cap of the initial end time, in hundredths (Math.min(5, duration))
InitialEndCap == 500

\* durations (hundredths of a second) the uploaded video may report
Durations == <<10, 0>>
\* slider positions (hundredths of a second) the user may drag to
TimeGrid == {5}

None == <<>>
Some(x) == <<x>>

\* the empty string, and the text the caption call of generation g returns
EmptyText == <<>>
CaptionText(g) == <<g>>

Min(a, b) == IF a <= b THEN a ELSE b
Max(a, b) == IF a >= b THEN a ELSE b

VARIABLES
    videoFile,            \* App: a video has been uploaded
    videoDuration,        \* the duration the video element reports (hundredths)
    segments,             \* App: the Segment records, in order
    editors,              \* per mounted SegmentEditor: duration state, metadata seen, pending extraction
    generations,          \* every generateGif run launched: captured segment, frames, promises
    workerScriptBlobUrl,  \* module-level cache of the worker script blob URL
    nextFrameId,          \* supply of fresh Frame ids (Math.random())
    nextSegmentId,        \* Date.now(): the millisecond after the last segment was created
    extractionsStarted,   \* number of extractFrames invocations so far
    extractedOnce,        \* ids of segments on which an extraction has completed
    returnedEarly,        \* some generateGif invocation has returned at its guard
    extractor,            \* the extraction loop run on its own: its input and result
    selector,             \* the frame picker run on its own: a segment, the clicks, the resolved frames
    released,             \* gifUrl handles passed to URL.revokeObjectURL
    encoder               \* the encoding of generateGif run on its own: images, frames added, render

vars == <<videoFile, videoDuration, segments, editors, generations,
          workerScriptBlobUrl, nextFrameId, nextSegmentId, extractionsStarted,
          extractedOnce, returnedEarly, extractor, selector, released, encoder>>

\* ------------------------------------------------- IEEE-754 double arithmetic
\* A double x in [0, 2) is the integer x * 2^60 = hi * 2^30 + lo.
LimbBase == 2^30

Dbl(h, l) == [hi |-> h, lo |-> l]

\* parseFloat of a slider value c/100: the double nearest to c/100
ToDouble(c) ==
    CASE c = 0   -> Dbl(0, 0)
      [] c = 5   -> Dbl(53687091, 214748368)
      [] c = 10  -> Dbl(107374182, 429496736)
      [] c = 15  -> Dbl(161061273, 644245088)
      [] c = 20  -> Dbl(214748364, 858993472)
      [] c = 25  -> Dbl(268435456, 0)
      [] c = 30  -> Dbl(322122547, 214748352)
      [] c = 35  -> Dbl(375809638, 429496704)
      [] c = 40  -> Dbl(429496729, 644245120)
      [] c = 45  -> Dbl(483183820, 858993472)
      [] c = 50  -> Dbl(536870912, 0)
      [] c = 55  -> Dbl(590558003, 214748416)
      [] c = 60  -> Dbl(644245094, 429496704)
      [] c = 65  -> Dbl(697932185, 644245120)
      [] c = 70  -> Dbl(751619276, 858993408)
      [] c = 75  -> Dbl(805306368, 0)
      [] c = 80  -> Dbl(858993459, 214748416)
      [] c = 85  -> Dbl(912680550, 429496704)
      [] c = 90  -> Dbl(966367641, 644245120)
      [] c = 95  -> Dbl(1020054732, 858993408)
      [] c = 100 -> Dbl(1073741824, 0)

\* the spacing of doubles (2^-52 at 1) around a value with high limb h, in units of 2^-60
Ulp(h) ==
    IF h >= 2^30 THEN 256
    ELSE IF h >= 2^29 THEN 128
    ELSE IF h >= 2^28 THEN 64
    ELSE IF h >= 2^27 THEN 32
    ELSE IF h >= 2^26 THEN 16
    ELSE IF h >= 2^25 THEN 8
    ELSE IF h >= 2^24 THEN 4
    ELSE IF h >= 2^23 THEN 2
    ELSE 1

\* a + b rounded to the nearest double, ties to even
DAdd(a, b) ==
    LET lo0  == a.lo + b.lo
        hi1  == a.hi + b.hi + (lo0 \div LimbBase)
        lo1  == lo0 % LimbBase
        q    == Ulp(hi1)
        r    == lo1 % q
        down == lo1 - r
        lo2  == IF 2 * r < q THEN down
                ELSE IF 2 * r > q THEN down + q
                ELSE IF (down \div q) % 2 = 0 THEN down ELSE down + q
    IN  IF lo2 >= LimbBase THEN Dbl(hi1 + 1, lo2 - LimbBase) ELSE Dbl(hi1, lo2)

DLeq(a, b) == a.hi < b.hi \/ (a.hi = b.hi /\ a.lo <= b.lo)

\* const interval = 1 / FRAMES_PER_SECOND
Interval == ToDouble(100 \div FRAMES_PER_SECOND)

\* for (let time = start; time <= end; time += interval): the timestamps pushed
RECURSIVE ExtractTimes(_, _, _)
ExtractTimes(time, end, acc) ==
    IF DLeq(time, end)
    THEN ExtractTimes(DAdd(time, Interval), end, Append(acc, time))
    ELSE acc

\* extractedFrames of a run over [start, end] (hundredths), ids fresh from firstId
ExtractedFrames(start, end, firstId) ==
    LET times == ExtractTimes(ToDouble(start), ToDouble(end), <<>>)
    IN  [j \in 1..Len(times) |-> [id |-> firstId + j - 1, timestamp |-> times[j]]]

\* ------------------------------------------------------------ App (App.tsx)
\* the Segment literal of handleVideoUpload and addSegment
NewSegment(id) ==
    [id |-> id,
     timeRange |-> [start |-> 0, end |-> DefaultEnd],
     frames |-> <<>>,
     selectedFrameRange |-> [start |-> None, end |-> None],
     gifDescription |-> EmptyText,
     status |-> "idle",
     gifUrl |-> None,
     error |-> None]

\* the state of a SegmentEditor as mounted
NewEditor == [duration |-> 0, loaded |-> FALSE, extraction |-> None]

\* updateSegment: prev.map(s => s.id === updatedSegment.id ? updatedSegment : s)
UpdateSegment(segs, updated) ==
    [k \in DOMAIN segs |-> IF segs[k].id = updated.id THEN updated ELSE segs[k]]

SegmentIds == {segments[k].id : k \in DOMAIN segments}

\* the record with id i in a collection
SegmentIn(segs, i) == segs[CHOOSE k \in DOMAIN segs : segs[k].id = i]

\* the record with id i, as rendered
SegmentById(i) == SegmentIn(segments, i)

\* a cleanup that runs when gifUrl changes but not when the editor unmounts
Revoked_OnChangeOnly(segs, next) ==
    {h \in 1..MaxGenerations :
        \E k \in DOMAIN segs, m \in DOMAIN next :
            /\ segs[k].gifUrl = Some(h)
            /\ next[m].id = segs[k].id
            /\ next[m].gifUrl # Some(h)}

\* the encoding of generateGif before it is started on the given frames: the
\* values of the image promises (none yet), the positions in the order their
\* images loaded, the frames added to the encoder, render() called, reject called
NewEncoder(selectedFrames) ==
    [selectedFrames |-> selectedFrames,
     started |-> FALSE,
     images |-> [k \in 1..Len(selectedFrames) |-> None],
     loadOrder |-> <<>>,
     failed |-> {},
     added |-> <<>>,
     rendered |-> FALSE,
     rejected |-> FALSE]

\* the cleanup of the gifUrl effect of each editor: the handles revokeObjectURL is
\* called on when the collection goes from segs to next, those of the segments
\* whose gifUrl is no longer that handle and of the segments removed
Revoked(segs, next) ==
    {h \in 1..MaxGenerations :
        \E k \in DOMAIN segs :
            /\ segs[k].gifUrl = Some(h)
            /\ \A m \in DOMAIN next : next[m].id = segs[k].id => next[m].gifUrl # Some(h)}

Init ==
    /\ videoFile = FALSE
    /\ videoDuration = 0
    /\ segments = <<>>
    /\ editors = <<>>
    /\ generations = <<>>
    /\ workerScriptBlobUrl = None
    /\ nextFrameId = 1
    /\ nextSegmentId = 1
    /\ extractionsStarted = 0
    /\ extractedOnce = {}
    /\ returnedEarly = FALSE
    /\ extractor = [timeRange |-> [start |-> 0, end |-> 0], frames |-> None]
    /\ selector = [segment |-> NewSegment(0), picked |-> <<>>, selectedFrames |-> None]
    /\ released = {}
    /\ encoder = NewEncoder(<<>>)

\* handleVideoUpload(file): the uploader is rendered only while videoFile is null
HandleVideoUpload(d) ==
    /\ ~videoFile
    /\ videoFile' = TRUE
    /\ videoDuration' = d
    /\ segments' = <<NewSegment(nextSegmentId)>>
    /\ editors' = (nextSegmentId :> NewEditor)
    /\ nextSegmentId' = nextSegmentId + 1
    /\ released' = released \cup Revoked(segments, segments')
    /\ UNCHANGED <<generations, workerScriptBlobUrl, nextFrameId,
                   extractionsStarted, extractedOnce,
                   returnedEarly, extractor, selector, encoder>>

\* addSegment, with now the value Date.now() returns: the millisecond in which
\* the last segment was added, or a later one.  The button is rendered after the
\* upload (millisecond 1), so that a click on it comes in a later millisecond.
AddSegment(now) ==
    /\ videoFile
    /\ now \in {nextSegmentId - 1, nextSegmentId}
    /\ now > 1
    /\ now <= MaxSegments
    /\ Len(segments) < MaxRecords
    /\ segments' = Append(segments, NewSegment(now))
    /\ editors' = (editors @@ (now :> NewEditor))
    /\ nextSegmentId' = now + 1
    /\ released' = released \cup Revoked(segments, segments')
    /\ UNCHANGED <<videoFile, videoDuration, generations, workerScriptBlobUrl,
                   nextFrameId, extractionsStarted, extractedOnce,
                   returnedEarly, extractor, selector, encoder>>

\* removeSegment(id), offered while canRemove (segments.length > 1); the editor unmounts
RemoveSegment(i) ==
    /\ i \in SegmentIds
    /\ Len(segments) > 1
    /\ segments' = SelectSeq(segments, LAMBDA s : s.id # i)
    /\ editors' = [j \in DOMAIN editors \ {i} |-> editors[j]]
    /\ released' = released \cup Revoked(segments, segments')
    /\ UNCHANGED <<videoFile, videoDuration, generations, workerScriptBlobUrl,
                   nextFrameId, nextSegmentId, extractionsStarted, extractedOnce,
                   returnedEarly, extractor, selector, encoder>>

\* ------------------------------------------- SegmentEditor: range and extraction
\* handleLoadedMetadata: fired once by the video element of a mounted editor
HandleLoadedMetadata(i) ==
    /\ i \in SegmentIds
    /\ ~editors[i].loaded
    /\ editors' = [editors EXCEPT ![i].loaded = TRUE, ![i].duration = videoDuration]
    /\ LET segment == SegmentById(i)
       IN  segments' =
             IF segment.timeRange.end = DefaultEnd
             THEN UpdateSegment(segments,
                    [segment EXCEPT !.timeRange =
                        [start |-> 0, end |-> Min(InitialEndCap, videoDuration)]])
             ELSE segments
    /\ released' = released \cup Revoked(segments, segments')
    /\ UNCHANGED <<videoFile, videoDuration, generations, workerScriptBlobUrl,
                   nextFrameId, nextSegmentId, extractionsStarted, extractedOnce,
                   returnedEarly, extractor, selector, encoder>>

\* the record handleRangeChange(e, part) passes to onUpdate, or the record as it is
\* when neither branch is taken
RangeChanged(segment, part, value) ==
    LET start == segment.timeRange.start
        end   == segment.timeRange.end
    IN  IF part = "start" /\ value < end
        THEN [segment EXCEPT !.timeRange = [start |-> value, end |-> end]]
        ELSE IF part = "end" /\ value > start
        THEN [segment EXCEPT !.timeRange = [start |-> start, end |-> value]]
        ELSE segment

\* handleRangeChange: the sliders run from 0 to the duration state
HandleRangeChange(i, part, value) ==
    /\ i \in SegmentIds
    /\ editors[i].loaded
    /\ value <= editors[i].duration
    /\ segments' = UpdateSegment(segments, RangeChanged(SegmentById(i), part, value))
    /\ released' = released \cup Revoked(segments, segments')
    /\ UNCHANGED <<videoFile, videoDuration, editors, generations,
                   workerScriptBlobUrl, nextFrameId, nextSegmentId,
                   extractionsStarted, extractedOnce,
                   returnedEarly, extractor, selector, encoder>>

\* the record extractFrames passes to onUpdate before it starts sampling
ExtractionReset(segment) ==
    [segment EXCEPT !.status = "extracting",
                    !.frames = <<>>,
                    !.selectedFrameRange = [start |-> None, end |-> None],
                    !.gifDescription = EmptyText]

\* the record extractFrames passes to onUpdate after its loop
ExtractionResult(segment, extractedFrames) ==
    [segment EXCEPT !.frames = extractedFrames, !.status = "frames_ready"]

\* a generation whose join has not delivered its result yet
InFlight(g) == generations[g].joined = "pending"

\* extractFrames up to its first await; the button is disabled while extracting.
\* context: whether canvas.getContext('2d') returned a context.
ExtractFrames(i, context) ==
    /\ i \in SegmentIds
    /\ editors[i].loaded
    /\ extractionsStarted < MaxExtractions
    /\ LET segment == SegmentById(i)
       IN  /\ segment.status # "extracting"
           /\ segments' = UpdateSegment(segments, ExtractionReset(segment))
           /\ editors' = IF context
                         THEN [editors EXCEPT ![i].extraction = Some(segment)]
                         ELSE editors
    /\ generations' = [g \in DOMAIN generations |->
                         IF generations[g].id = i /\ InFlight(g)
                         THEN [generations[g] EXCEPT !.superseded = TRUE]
                         ELSE generations[g]]
    /\ extractionsStarted' = extractionsStarted + 1
    /\ released' = released \cup Revoked(segments, segments')
    /\ UNCHANGED <<videoFile, videoDuration, workerScriptBlobUrl, nextFrameId,
                   nextSegmentId, extractedOnce,
                   returnedEarly, extractor, selector, encoder>>

\* the last seek of the loop settles: extractFrames runs to its end
ExtractionCompletes(i) ==
    /\ i \in SegmentIds
    /\ editors[i].extraction # None
    /\ LET segment == editors[i].extraction[1]
           extractedFrames == ExtractedFrames(segment.timeRange.start,
                                              segment.timeRange.end, nextFrameId)
       IN  /\ segments' = UpdateSegment(segments, ExtractionResult(segment, extractedFrames))
           /\ nextFrameId' = nextFrameId + Len(extractedFrames)
    /\ editors' = [editors EXCEPT ![i].extraction = None]
    /\ extractedOnce' = extractedOnce \cup {i}
    /\ released' = released \cup Revoked(segments, segments')
    /\ UNCHANGED <<videoFile, videoDuration, generations, workerScriptBlobUrl,
                   nextSegmentId, extractionsStarted,
                   returnedEarly, extractor, selector, encoder>>

\* ------------------------------------------------- SegmentEditor: selection
\* frames.findIndex(f => f.id === id) for id a frame id or null: 0-based, -1
\* when no frame has that id
FindIndex(frames, id) ==
    IF \E j \in 1..Len(frames) : Some(frames[j].id) = id
    THEN (CHOOSE j \in 1..Len(frames) :
            /\ Some(frames[j].id) = id
            /\ \A m \in 1..(j - 1) : Some(frames[m].id) # id) - 1
    ELSE -1

\* a picker that, with both ends set, moves the end instead of starting afresh
FrameSelected_MovesEnd(segment, frameId) ==
    IF segment.selectedFrameRange.start = None
    THEN [segment EXCEPT !.selectedFrameRange = [start |-> Some(frameId), end |-> None]]
    ELSE [segment EXCEPT !.selectedFrameRange.end = Some(frameId)]

\* the record handleFrameSelection(frameId) passes to onUpdate
FrameSelected(segment, frameId) ==
    LET start == segment.selectedFrameRange.start
        end   == segment.selectedFrameRange.end
    IN  IF start = None
        THEN [segment EXCEPT !.selectedFrameRange = [start |-> Some(frameId), end |-> None]]
        ELSE IF end = None
        THEN LET startIndex == FindIndex(segment.frames, start)
                 newIndex   == FindIndex(segment.frames, Some(frameId))
             IN  IF newIndex < startIndex
                 THEN [segment EXCEPT !.selectedFrameRange =
                          [start |-> Some(frameId), end |-> start]]
                 ELSE [segment EXCEPT !.selectedFrameRange =
                          [start |-> start, end |-> Some(frameId)]]
        ELSE [segment EXCEPT !.selectedFrameRange = [start |-> Some(frameId), end |-> None]]

\* "Step 2" (the frame strip and the Create GIF button) is rendered
Step2Visible(segment) ==
    /\ segment.status \in {"extracting", "frames_ready", "generating", "done", "error"}
    /\ Len(segment.frames) > 0

\* a click on the j-th rendered frame
HandleFrameSelection(i, j) ==
    /\ i \in SegmentIds
    /\ LET segment == SegmentById(i)
       IN  /\ Step2Visible(segment)
           /\ j \in 1..Len(segment.frames)
           /\ segments' = UpdateSegment(segments, FrameSelected(segment, segment.frames[j].id))
    /\ released' = released \cup Revoked(segments, segments')
    /\ UNCHANGED <<videoFile, videoDuration, editors, generations,
                   workerScriptBlobUrl, nextFrameId, nextSegmentId,
                   extractionsStarted, extractedOnce,
                   returnedEarly, extractor, selector, encoder>>

\* ------------------------------------------------ SegmentEditor: generation
\* the guard with && for ||: only a selection with neither end set is incomplete
SelectionIncomplete_BothUnset(segment) ==
    /\ segment.selectedFrameRange.start = None
    /\ segment.selectedFrameRange.end = None

\* the guard without its second test: only start is looked at
SelectionIncomplete_StartOnly(segment) ==
    segment.selectedFrameRange.start = None

\* start === null || end === null
SelectionIncomplete(segment) ==
    \/ segment.selectedFrameRange.start = None
    \/ segment.selectedFrameRange.end = None

\* a Create GIF button that stays enabled while the status is generating
CreateGifEnabled_WhileGenerating(segment) ==
    /\ Step2Visible(segment)
    /\ segment.selectedFrameRange.start # None
    /\ segment.selectedFrameRange.end # None

\* the Create GIF button is rendered and not disabled
CreateGifEnabled(segment) ==
    /\ Step2Visible(segment)
    /\ ~SelectionIncomplete(segment)
    /\ segment.status # "generating"

\* Array.prototype.slice(begin, end) with 0-based, possibly negative, indices
Slice(s, begin, end) ==
    LET n  == Len(s)
        b1 == IF begin < 0 THEN Max(n + begin, 0) ELSE Min(begin, n)
        e1 == IF end < 0 THEN Max(n + end, 0) ELSE Min(end, n)
    IN  IF b1 >= e1 THEN <<>> ELSE SubSeq(s, b1 + 1, e1)

\* the slice taken from start to end as they are, without Math.min and Math.max
SelectedFrames_StartToEnd(segment) ==
    Slice(segment.frames,
          FindIndex(segment.frames, segment.selectedFrameRange.start),
          FindIndex(segment.frames, segment.selectedFrameRange.end) + 1)

\* selectedFrames of generateGif
SelectedFrames(segment) ==
    LET startIndex == FindIndex(segment.frames, segment.selectedFrameRange.start)
        endIndex   == FindIndex(segment.frames, segment.selectedFrameRange.end)
    IN  Slice(segment.frames, Min(startIndex, endIndex), Max(startIndex, endIndex) + 1)

\* the record generateGif passes to onUpdate before it launches the work
GenerationStarted(segment) ==
    [segment EXCEPT !.status = "generating", !.gifUrl = None, !.error = None]

\* the record generateGif passes to onUpdate after Promise.all resolved
GenerationDone(segment, gifUrl, description) ==
    [segment EXCEPT !.gifDescription = description,
                    !.gifUrl = Some(gifUrl),
                    !.status = "done"]

\* the record generateGif passes to onUpdate in its catch block
GenerationFailed(segment, errorMessage) ==
    [segment EXCEPT !.status = "error",
                    !.error = Some("Failed to generate GIF. " \o errorMessage)]

\* the fallback URL getWorkerScriptUrl returns when its fetch fails
CdnUrl == 0

\* generateGif, up to its first await that does not resolve at once.  With the
\* blob URL cached getWorkerScriptUrl resolves at once and both promises are
\* launched; otherwise a fetch of the worker script is issued.
GenerateGif(i) ==
    /\ i \in SegmentIds
    /\ LET segment == SegmentById(i)
           g == Len(generations) + 1
       IN  IF SelectionIncomplete(segment)
           THEN /\ returnedEarly' = TRUE
                /\ UNCHANGED <<segments, generations>>
           ELSE /\ g <= MaxGenerations
                /\ segments' = UpdateSegment(segments, GenerationStarted(segment))
                /\ generations' = Append(generations,
                      [id |-> i,
                       segment |-> segment,
                       selectedFrames |-> SelectedFrames(segment),
                       workerScriptUrl |-> workerScriptBlobUrl,
                       gif |-> "pending",
                       description |-> "pending",
                       joined |-> "pending",
                       superseded |-> FALSE])
                /\ UNCHANGED returnedEarly
    /\ released' = released \cup Revoked(segments, segments')
    /\ UNCHANGED <<videoFile, videoDuration, editors, workerScriptBlobUrl,
                   nextFrameId, nextSegmentId, extractionsStarted, extractedOnce,
                   extractor, selector, encoder>>

\* a click on the Create GIF button
ClickCreateGif(i) ==
    /\ i \in SegmentIds
    /\ CreateGifEnabled(SegmentById(i))
    /\ GenerateGif(i)

\* getWorkerScriptUrl after its fetch: the text is wrapped in a new blob URL, cached
WorkerScriptFetched(g) ==
    /\ g \in DOMAIN generations
    /\ generations[g].workerScriptUrl = None
    /\ workerScriptBlobUrl' = Some(g)
    /\ generations' = [generations EXCEPT ![g].workerScriptUrl = Some(g)]
    /\ UNCHANGED <<videoFile, videoDuration, segments, editors, nextFrameId,
                   nextSegmentId, extractionsStarted, extractedOnce,
                   returnedEarly, extractor, selector, released, encoder>>

\* getWorkerScriptUrl when its fetch fails: falls back to the CDN URL, caches nothing
WorkerScriptFetchFailed(g) ==
    /\ g \in DOMAIN generations
    /\ generations[g].workerScriptUrl = None
    /\ generations' = [generations EXCEPT ![g].workerScriptUrl = Some(CdnUrl)]
    /\ UNCHANGED <<videoFile, videoDuration, segments, editors, workerScriptBlobUrl,
                   nextFrameId, nextSegmentId, extractionsStarted, extractedOnce,
                   returnedEarly, extractor, selector, released, encoder>>

\* a join that resolves on the encoder alone, without waiting for the caption
JoinOutcome_GifOnly(gif, description) ==
    IF gif = "failed" \/ description = "failed" THEN "rejected"
    ELSE IF gif = "ok" THEN "resolved"
    ELSE "pending"

\* a join that follows the caption call alone, whatever the encoder does
JoinOutcome_CaptionOnly(gif, description) ==
    IF description = "failed" THEN "rejected"
    ELSE IF description = "ok" THEN "resolved"
    ELSE "pending"

\* Promise.all([gifPromise, descriptionPromise]): rejected as soon as one is,
\* resolved once both are
JoinOutcome(gif, description) ==
    IF gif = "failed" \/ description = "failed" THEN "rejected"
    ELSE IF gif = "ok" /\ description = "ok" THEN "resolved"
    ELSE "pending"

\* one of the two promises of generation g settles; the continuation of the
\* await (the onUpdate after it, or the catch block) runs when the join settles
Settle(g, promise, outcome, errorMessage) ==
    /\ g \in DOMAIN generations
    /\ generations[g].workerScriptUrl # None
    /\ generations[g][promise] = "pending"
    /\ LET t      == [generations[g] EXCEPT ![promise] = outcome]
           joined == IF generations[g].joined # "pending"
                     THEN generations[g].joined
                     ELSE JoinOutcome(t.gif, t.description)
           arrives == generations[g].joined = "pending" /\ joined # "pending"
       IN  /\ generations' = [generations EXCEPT ![g] =
                 IF joined = "pending"
                 THEN t
                 ELSE [t EXCEPT !.joined = joined, !.segment = None, !.selectedFrames = <<>>]]
           /\ segments' =
                IF arrives /\ joined = "resolved"
                THEN UpdateSegment(segments, GenerationDone(t.segment, g, CaptionText(g)))
                ELSE IF arrives
                THEN UpdateSegment(segments, GenerationFailed(t.segment, errorMessage))
                ELSE segments
    /\ released' = released \cup Revoked(segments, segments')
    /\ UNCHANGED <<videoFile, videoDuration, editors, workerScriptBlobUrl,
                   nextFrameId, nextSegmentId, extractionsStarted, extractedOnce,
                   returnedEarly, extractor, selector, encoder>>

\* the encoder's 'finished' event: gifPromise resolves with a new object URL
GifFinished(g) == Settle(g, "gif", "ok", "")

\* an image fails to load, or adding frames or rendering throws: gifPromise rejects
GifRejected(g) == Settle(g, "gif", "failed", "Failed to load frame image")

\* generateDescriptionForFrames returns response.text
DescriptionReturned(g) == Settle(g, "description", "ok", "")

\* generateDescriptionForFrames throws its wrapped error
DescriptionFailed(g) ==
    Settle(g, "description", "failed", "The AI model failed to generate a description.")

\* ------------------------------------------------------- the extractor alone
\* time ranges (hundredths of a second) the extraction loop is run on by itself
ExtractorGrid == {0, 5, 10, 20, 30, 40, 50, 60, 70, 80, 90, 100}

ExtractorInputs ==
    {[start |-> a, end |-> b] : a \in ExtractorGrid, b \in ExtractorGrid}

\* the loop of extractFrames applied to the chosen time range
RunExtractor ==
    /\ extractor.frames = None
    /\ extractor' = [extractor EXCEPT !.frames =
                        Some(ExtractedFrames(extractor.timeRange.start,
                                             extractor.timeRange.end, 1))]
    /\ UNCHANGED <<videoFile, videoDuration, segments, editors, generations,
                   workerScriptBlobUrl, nextFrameId, nextSegmentId,
                   extractionsStarted, extractedOnce, returnedEarly, selector, released, encoder>>

\* ------------------------------------------------- the collection of App alone
\* handleLoadedMetadata of the editor rendering the k-th segment
EditorLoadedMetadata(k) ==
    /\ k \in DOMAIN segments
    /\ segments[k].timeRange.end = DefaultEnd
    /\ segments' = UpdateSegment(segments,
                      [segments[k] EXCEPT !.timeRange =
                          [start |-> 0, end |-> Min(InitialEndCap, videoDuration)]])
    /\ released' = released \cup Revoked(segments, segments')
    /\ UNCHANGED <<videoFile, videoDuration, editors, generations, workerScriptBlobUrl,
                   nextFrameId, nextSegmentId, extractionsStarted, extractedOnce,
                   returnedEarly, extractor, selector, encoder>>

\* handleRangeChange of the editor rendering the k-th segment, its metadata loaded
EditorRangeChange(k, part, value) ==
    /\ k \in DOMAIN segments
    /\ segments[k].timeRange.end # DefaultEnd
    /\ value <= videoDuration
    /\ segments' = UpdateSegment(segments, RangeChanged(segments[k], part, value))
    /\ released' = released \cup Revoked(segments, segments')
    /\ UNCHANGED <<videoFile, videoDuration, editors, generations, workerScriptBlobUrl,
                   nextFrameId, nextSegmentId, extractionsStarted, extractedOnce,
                   returnedEarly, extractor, selector, encoder>>

\* ---------------------------------------------------- the frame picker alone
\* a frames_ready segment with n frames, as extracted, and the given selection
PickerSegment(n, start, end) ==
    [NewSegment(0) EXCEPT !.status = "frames_ready",
                          !.frames = ExtractedFrames(0, 10 * (n - 1) + 5, 1),
                          !.selectedFrameRange = [start |-> start, end |-> end]]

\* the segments the picker is run on: nothing selected, or two frames selected
\* in either order
PickerInputs ==
    UNION {{PickerSegment(n, None, None)} \cup
           {PickerSegment(n, Some(a), Some(b)) : a \in 1..n, b \in 1..n} : n \in 1..MaxFrames}

\* handleFrameSelection(frameId) on the j-th frame of the picker's segment
SelectFrame(j) ==
    /\ Len(selector.picked) < MaxClicks
    /\ j \in 1..Len(selector.segment.frames)
    /\ LET frameId == selector.segment.frames[j].id
       IN  selector' = [segment |-> FrameSelected(selector.segment, frameId),
                        picked |-> Append(selector.picked, frameId),
                        selectedFrames |-> None]
    /\ UNCHANGED <<videoFile, videoDuration, segments, editors, generations,
                   workerScriptBlobUrl, nextFrameId, nextSegmentId,
                   extractionsStarted, extractedOnce, returnedEarly, extractor, released, encoder>>

\* generateGif's computation of selectedFrames on the picker's segment
ResolveSelection ==
    /\ selector.selectedFrames = None
    /\ ~SelectionIncomplete(selector.segment)
    /\ selector' = [selector EXCEPT !.selectedFrames = Some(SelectedFrames(selector.segment))]
    /\ UNCHANGED <<videoFile, videoDuration, segments, editors, generations,
                   workerScriptBlobUrl, nextFrameId, nextSegmentId,
                   extractionsStarted, extractedOnce, returnedEarly, extractor, released, encoder>>

\* ------------------------------------------------------- the encoding alone
\* the sub-sequences of frames generateGif may select: the slices of a segment's frames
EncoderInputs ==
    LET frames == ExtractedFrames(0, 10 * (MaxFrames - 1) + 5, 1)
    IN  {Slice(frames, a, b) : a \in 0..MaxFrames, b \in 0..MaxFrames}

\* a promise collection filled in the order the images happen to load
ImageResolved_InLoadOrder(images, k, img) ==
    LET free == CHOOSE m \in 1..Len(images) :
                    images[m] = None /\ \A q \in 1..(m - 1) : images[q] # None
    IN  [images EXCEPT ![free] = Some(img)]

\* resolveImg(img) of the k-th image promise: Promise.all keeps the value at
\* the position of its promise
ImageResolved(images, k, img) == [images EXCEPT ![k] = Some(img)]

\* Promise.all(imageLoadPromises) is resolved: every promise has its value
AllImagesLoaded(images) == \A k \in 1..Len(images) : images[k] # None

\* the .then callback: gif.addFrame for each image in turn, then gif.render()
AddFramesAndRender(enc) ==
    [enc EXCEPT !.added = [k \in 1..Len(enc.images) |-> enc.images[k][1]],
                !.rendered = TRUE]

\* the executor of gifPromise: the images are created and start loading
StartEncoder ==
    /\ ~encoder.started
    /\ LET enc == [encoder EXCEPT !.started = TRUE]
       IN  encoder' = IF AllImagesLoaded(enc.images) THEN AddFramesAndRender(enc) ELSE enc
    /\ UNCHANGED <<videoFile, videoDuration, segments, editors, generations,
                   workerScriptBlobUrl, nextFrameId, nextSegmentId, extractionsStarted,
                   extractedOnce, returnedEarly, extractor, selector, released>>

\* img.onload of the k-th image
ImageLoaded(k) ==
    /\ encoder.started
    /\ k \in 1..Len(encoder.selectedFrames)
    /\ encoder.images[k] = None
    /\ k \notin encoder.failed
    /\ LET enc == [encoder EXCEPT
                     !.images = ImageResolved(encoder.images, k, encoder.selectedFrames[k]),
                     !.loadOrder = Append(encoder.loadOrder, k)]
       IN  encoder' = IF AllImagesLoaded(enc.images) THEN AddFramesAndRender(enc) ELSE enc
    /\ UNCHANGED <<videoFile, videoDuration, segments, editors, generations,
                   workerScriptBlobUrl, nextFrameId, nextSegmentId, extractionsStarted,
                   extractedOnce, returnedEarly, extractor, selector, released>>

\* img.onerror of the k-th image: gifPromise is rejected, the image promise stays pending
ImageFailed(k) ==
    /\ encoder.started
    /\ k \in 1..Len(encoder.selectedFrames)
    /\ encoder.images[k] = None
    /\ k \notin encoder.failed
    /\ encoder' = [encoder EXCEPT !.failed = encoder.failed \cup {k}, !.rejected = TRUE]
    /\ UNCHANGED <<videoFile, videoDuration, segments, editors, generations,
                   workerScriptBlobUrl, nextFrameId, nextSegmentId, extractionsStarted,
                   extractedOnce, returnedEarly, extractor, selector, released>>

\* ------------------------------------------------------------ specifications
\* the lifecycle operations of a mounted SegmentEditor and their completions
LifecycleNext ==
    \/ \E i \in 1..MaxSegments : HandleLoadedMetadata(i)
    \/ \E i \in 1..MaxSegments, context \in BOOLEAN : ExtractFrames(i, context)
    \/ \E i \in 1..MaxSegments : ExtractionCompletes(i)
    \/ \E i \in 1..MaxSegments, j \in 1..nextFrameId : HandleFrameSelection(i, j)
    \/ \E g \in 1..MaxGenerations : WorkerScriptFetched(g)
    \/ \E g \in 1..MaxGenerations : WorkerScriptFetchFailed(g)
    \/ \E g \in 1..MaxGenerations : GifFinished(g)
    \/ \E g \in 1..MaxGenerations : GifRejected(g)
    \/ \E g \in 1..MaxGenerations : DescriptionReturned(g)
    \/ \E g \in 1..MaxGenerations : DescriptionFailed(g)

\* a drag of one of the two range sliders
RangeNext ==
    \E i \in 1..MaxSegments, part \in {"start", "end"}, value \in TimeGrid :
        HandleRangeChange(i, part, value)

\* a session on the segment the upload creates
Next ==
    \/ \E n \in DOMAIN Durations : HandleVideoUpload(Durations[n])
    \/ RangeNext
    \/ \E i \in 1..MaxSegments : ClickCreateGif(i)
    \/ LifecycleNext

Spec == Init /\ [][Next]_vars

\* the same lifecycle with generateGif called directly, whatever the button
\* shows, on a segment whose time range is left as loaded
NextCalls ==
    \/ \E n \in DOMAIN Durations : HandleVideoUpload(Durations[n])
    \/ \E i \in 1..MaxSegments : GenerateGif(i)
    \/ LifecycleNext

CallSpec == Init /\ [][NextCalls]_vars

\* a session in which segments are added, each in a millisecond of its own, and
\* removed, on a video of the first duration, with the 2D context and the worker
\* script available
SessionNext ==
    \/ HandleVideoUpload(Durations[1])
    \/ AddSegment(nextSegmentId)
    \/ \E i \in 1..MaxSegments : RemoveSegment(i)
    \/ \E i \in 1..MaxSegments : HandleLoadedMetadata(i)
    \/ \E i \in 1..MaxSegments : ExtractFrames(i, TRUE)
    \/ \E i \in 1..MaxSegments : ExtractionCompletes(i)
    \/ \E i \in 1..MaxSegments, j \in 1..nextFrameId : HandleFrameSelection(i, j)
    \/ \E i \in 1..MaxSegments : ClickCreateGif(i)
    \/ \E g \in 1..MaxGenerations : WorkerScriptFetched(g)
    \/ \E g \in 1..MaxGenerations : GifFinished(g)
    \/ \E g \in 1..MaxGenerations : GifRejected(g)
    \/ \E g \in 1..MaxGenerations : DescriptionReturned(g)
    \/ \E g \in 1..MaxGenerations : DescriptionFailed(g)

SessionSpec == Init /\ [][SessionNext]_vars

\* the collection under creations, the updates of the editors and removals,
\* with segments created in the same millisecond or in different ones
CollectionNext ==
    \/ \E n \in DOMAIN Durations : HandleVideoUpload(Durations[n])
    \/ \E now \in 1..MaxSegments : AddSegment(now)
    \/ \E i \in 1..MaxSegments : RemoveSegment(i)
    \/ \E k \in 1..MaxRecords : EditorLoadedMetadata(k)
    \/ \E k \in 1..MaxRecords, part \in {"start", "end"}, value \in TimeGrid :
          EditorRangeChange(k, part, value)

CollectionSpec == Init /\ [][CollectionNext]_vars

\* the extraction loop on every time range of the grid
ExtractorInit ==
    /\ videoFile = FALSE
    /\ videoDuration = 0
    /\ segments = <<>>
    /\ editors = <<>>
    /\ generations = <<>>
    /\ workerScriptBlobUrl = None
    /\ nextFrameId = 1
    /\ nextSegmentId = 1
    /\ extractionsStarted = 0
    /\ extractedOnce = {}
    /\ returnedEarly = FALSE
    /\ \E r \in ExtractorInputs : extractor = [timeRange |-> r, frames |-> None]
    /\ selector = [segment |-> NewSegment(0), picked |-> <<>>, selectedFrames |-> None]
    /\ released = {}
    /\ encoder = NewEncoder(<<>>)

ExtractorSpec == ExtractorInit /\ [][RunExtractor]_vars

\* the frame picker on every segment of PickerInputs
SelectorInit ==
    /\ videoFile = FALSE
    /\ videoDuration = 0
    /\ segments = <<>>
    /\ editors = <<>>
    /\ generations = <<>>
    /\ workerScriptBlobUrl = None
    /\ nextFrameId = 1
    /\ nextSegmentId = 1
    /\ extractionsStarted = 0
    /\ extractedOnce = {}
    /\ returnedEarly = FALSE
    /\ extractor = [timeRange |-> [start |-> 0, end |-> 0], frames |-> None]
    /\ \E segment \in PickerInputs :
          selector = [segment |-> segment, picked |-> <<>>, selectedFrames |-> None]
    /\ released = {}
    /\ encoder = NewEncoder(<<>>)

SelectorNext ==
    \/ \E j \in 1..MaxFrames : SelectFrame(j)
    \/ ResolveSelection

SelectorSpec == SelectorInit /\ [][SelectorNext]_vars

\* the encoding on every sub-sequence of EncoderInputs
EncoderInit ==
    /\ videoFile = FALSE
    /\ videoDuration = 0
    /\ segments = <<>>
    /\ editors = <<>>
    /\ generations = <<>>
    /\ workerScriptBlobUrl = None
    /\ nextFrameId = 1
    /\ nextSegmentId = 1
    /\ extractionsStarted = 0
    /\ extractedOnce = {}
    /\ returnedEarly = FALSE
    /\ extractor = [timeRange |-> [start |-> 0, end |-> 0], frames |-> None]
    /\ selector = [segment |-> NewSegment(0), picked |-> <<>>, selectedFrames |-> None]
    /\ released = {}
    /\ \E selectedFrames \in EncoderInputs : encoder = NewEncoder(selectedFrames)

EncoderNext ==
    \/ StartEncoder
    \/ \E k \in 1..MaxFrames : ImageLoaded(k)
    \/ \E k \in 1..MaxFrames : ImageFailed(k)

EncoderSpec == EncoderInit /\ [][EncoderNext]_vars

\* ------------------------------------------------------------- properties
IdsOf(segs) == {segs[k].id : k \in DOMAIN segs}

NoSelection == [start |-> None, end |-> None]

\* the time range of the record is a valid one; the properties on extraction
\* and generation are stated for the segments that have one
ValidRange(segment) == segment.timeRange.start < segment.timeRange.end

BothEndsSet(segment) ==
    /\ segment.selectedFrameRange.start # None
    /\ segment.selectedFrameRange.end # None

\* the step is an invocation of extractFrames on segment i
ExtractFramesStep(i) ==
    /\ i \in IdsOf(segments) /\ i \in IdsOf(segments')
    /\ extractionsStarted' = extractionsStarted + 1
    /\ SegmentIn(segments', i).status = "extracting"

\* the step is the completion of the extraction pending on segment i
ExtractionCompletesStep(i) ==
    /\ i \in DOMAIN editors /\ i \in DOMAIN editors'
    /\ editors[i].extraction # None
    /\ editors'[i].extraction = None

\* the step delivers the result of generation g to its handler
GenerationArrivesStep(g) ==
    /\ g \in DOMAIN generations
    /\ generations[g].joined = "pending"
    /\ generations'[g].joined # "pending"

\* C1: a segment is in status done only with both the encoding and the caption
\* call of one generateGif run on it completed successfully, its gifUrl the
\* handle that encoding produced and its gifDescription the text that call returned.
C1_DoneOnlyAfterBoth ==
    \A k \in DOMAIN segments :
        segments[k].status = "done" =>
            \E g \in DOMAIN generations :
                /\ generations[g].id = segments[k].id
                /\ generations[g].gif = "ok"
                /\ generations[g].description = "ok"
                /\ segments[k].gifUrl = Some(g)
                /\ segments[k].gifDescription = CaptionText(g)

C1_Witness ==
    \E k \in DOMAIN segments :
        /\ ValidRange(segments[k])
        /\ segments[k].status = "done"
        /\ segments[k].gifUrl # None
        /\ segments[k].gifDescription # EmptyText

\* C2: when a generation ends in failure, the record that results has status
\* error, a non-empty error string and gifUrl undefined, whatever the state
\* generateGif was started from.
C2_FailureLeavesNoGifUrl ==
    [][\A g \in DOMAIN generations :
          (/\ GenerationArrivesStep(g)
           /\ generations'[g].joined = "rejected"
           /\ generations[g].id \in IdsOf(segments')
           /\ ValidRange(generations[g].segment)) =>
              LET result == SegmentIn(segments', generations[g].id)
              IN  /\ result.status = "error"
                  /\ result.error # None
                  /\ result.error # Some("")
                  /\ result.gifUrl = None]_vars

\* C3: extractFrames on a segment in idle, frames_ready, done or error leaves it
\* extracting with frames empty, no selection, an empty description, no error
\* and no gifUrl.
C3_ExtractFramesClearsAll ==
    [][\A i \in IdsOf(segments) :
          (/\ ExtractFramesStep(i)
           /\ ValidRange(SegmentIn(segments, i))
           /\ SegmentIn(segments, i).status \in {"idle", "frames_ready", "done", "error"}) =>
              LET result == SegmentIn(segments', i)
              IN  /\ result.status = "extracting"
                  /\ result.frames = <<>>
                  /\ result.selectedFrameRange = NoSelection
                  /\ result.gifDescription = EmptyText
                  /\ result.error = None
                  /\ result.gifUrl = None]_vars

\* C4: the result of a generation that was in flight when extractFrames was
\* invoked on its segment changes nothing of the segment when it arrives.
C4_StaleGenerationDiscarded ==
    [][\A g \in DOMAIN generations :
          (/\ GenerationArrivesStep(g)
           /\ generations[g].superseded
           /\ ValidRange(generations[g].segment)) =>
              segments' = segments]_vars

\* C5: whenever the frames of a segment are replaced, at the start of an
\* extraction and at its completion, the record that results has no selection.
C5_SelectionResetWithFrames ==
    [][\A i \in IdsOf(segments) :
          (/\ ExtractFramesStep(i) \/ (ExtractionCompletesStep(i) /\ i \in IdsOf(segments'))
           /\ ValidRange(SegmentIn(segments', i))) =>
              SegmentIn(segments', i).selectedFrameRange = NoSelection]_vars

\* C6: whenever both ends of a selection are set, each is the id of a frame of
\* the segment's current frames.
C6_SelectionWithinFrames ==
    \A k \in DOMAIN segments :
        (BothEndsSet(segments[k]) /\ ValidRange(segments[k])) =>
            /\ FindIndex(segments[k].frames, segments[k].selectedFrameRange.start) >= 0
            /\ FindIndex(segments[k].frames, segments[k].selectedFrameRange.end) >= 0

\* C7: on a time range with start < end the extraction yields exactly
\* floor((end - start) * R) + 1 frames, the k-th (from 0) with timestamp
\* start + k/R as a double, strictly increasing, the last one <= end.
C7_FramesOnTheGrid ==
    (extractor.frames # None /\ extractor.timeRange.start < extractor.timeRange.end) =>
        LET start  == extractor.timeRange.start
            end    == extractor.timeRange.end
            frames == extractor.frames[1]
            count  == ((end - start) * FRAMES_PER_SECOND) \div 100 + 1
        IN  /\ Len(frames) = count
            /\ \A k \in 1..count :
                  frames[k].timestamp =
                      DAdd(ToDouble(start), ToDouble((k - 1) * (100 \div FRAMES_PER_SECOND)))
            /\ \A k \in 1..(count - 1) :
                  ~DLeq(frames[k + 1].timestamp, frames[k].timestamp)
            /\ DLeq(frames[count].timestamp, ToDouble(end))

\* C8: every segment's time range has start < end in every reachable state.
C8_RangeOrdered ==
    \A k \in DOMAIN segments :
        segments[k].timeRange.start < segments[k].timeRange.end

\* C9: a segment enters generating never from idle, and only with an extraction
\* completed on it before, at least one frame and both ends of the selection set.
C9_GeneratingOnlyAfterSelection ==
    [][\A i \in IdsOf(segments) :
          (/\ i \in IdsOf(segments')
           /\ SegmentIn(segments, i).status # "generating"
           /\ SegmentIn(segments', i).status = "generating") =>
              /\ SegmentIn(segments, i).status # "idle"
              /\ i \in extractedOnce
              /\ Len(SegmentIn(segments', i).frames) > 0
              /\ BothEndsSet(SegmentIn(segments', i))]_vars

C9_Witness ==
    \E k \in DOMAIN segments :
        /\ ValidRange(segments[k])
        /\ segments[k].status = "generating"
        /\ segments[k].id \in extractedOnce
        /\ BothEndsSet(segments[k])

\* C10: generateGif on a segment with an end of its selection unset changes
\* nothing of the segment and launches no encoding and no caption request.
C10_GenerateGifNoOp ==
    [][\A i \in IdsOf(segments) :
          (/\ GenerateGif(i)
           /\ \/ SegmentById(i).selectedFrameRange.start = None
              \/ SegmentById(i).selectedFrameRange.end = None) =>
              UNCHANGED <<segments, generations, editors, workerScriptBlobUrl>>]_vars

C10_Witness ==
    /\ returnedEarly
    /\ generations = <<>>
    /\ \E k \in DOMAIN segments :
          /\ ValidRange(segments[k])
          /\ segments[k].selectedFrameRange.start # None
          /\ segments[k].selectedFrameRange.end = None
          /\ segments[k].status = "frames_ready"

\* C11: when extractFrames cannot acquire the 2D context of its canvas, the
\* segment does not stay in extracting: it ends in error with a message, or in
\* idle, so that extractFrames can be triggered again.
C11_ContextFailureSignalled ==
    [][\A i \in IdsOf(segments) :
          (ExtractFrames(i, FALSE) /\ ValidRange(SegmentById(i))) =>
              LET result == SegmentIn(segments', i)
              IN  \/ result.status = "error" /\ result.error # None
                  \/ result.status = "idle"]_vars

\* the position (from 1) of the frame with the given id in the picker's segment
PositionOf(id) ==
    CHOOSE p \in 1..Len(selector.segment.frames) : selector.segment.frames[p].id = id

\* C12: with both ends of the selection set to frames of the segment, the
\* frames generateGif hands on are those from the lower to the higher of the two
\* positions, both included, in frames order, whichever end holds the lower one.
C12_SelectedFramesSpan ==
    (selector.selectedFrames # None /\ BothEndsSet(selector.segment)) =>
        LET frames == selector.segment.frames
            a  == PositionOf(selector.segment.selectedFrameRange.start[1])
            b  == PositionOf(selector.segment.selectedFrameRange.end[1])
            lo == IF a <= b THEN a ELSE b
            hi == IF a <= b THEN b ELSE a
        IN  selector.selectedFrames[1] = [k \in 1..(hi - lo + 1) |-> frames[lo + k - 1]]

C12_Witness ==
    /\ selector.selectedFrames # None
    /\ BothEndsSet(selector.segment)
    /\ PositionOf(selector.segment.selectedFrameRange.start[1]) >
          PositionOf(selector.segment.selectedFrameRange.end[1]) + 1
    /\ Len(selector.selectedFrames[1]) >= 3

\* C13: from {none, none} select(a) gives {a, none}; a further select(b) gives
\* a pair with both ends set; with both ends set select(c) gives {c, none},
\* whatever c is, so that select(a), select(b), select(c) ends in {c, none}.
C13_TwoClickPicker ==
    [][\A j \in 1..MaxFrames :
          SelectFrame(j) =>
              LET before == selector.segment.selectedFrameRange
                  after  == selector'.segment.selectedFrameRange
                  c      == Some(selector.segment.frames[j].id)
              IN  /\ before = NoSelection => after = [start |-> c, end |-> None]
                  /\ (before.start # None /\ before.end = None) =>
                         (after.start # None /\ after.end # None)
                  /\ BothEndsSet(selector.segment) => after = [start |-> c, end |-> None]]_vars

C13_Witness ==
    /\ Len(selector.picked) = 3
    /\ selector.picked[1] # selector.picked[2]
    /\ selector.picked[3] \notin {selector.picked[1], selector.picked[2]}
    /\ selector.segment.selectedFrameRange = [start |-> Some(selector.picked[3]), end |-> None]

\* the generation has obtained a worker script URL from a fetch that succeeded
\* (its own or a cached one)
HasFetchedScript(g) ==
    /\ generations[g].workerScriptUrl # None
    /\ generations[g].workerScriptUrl # Some(CdnUrl)

\* C14: when the fetch of the worker script succeeds it is issued once: every
\* generation, on any segment, also one started before the first fetch has
\* completed, receives the same blob URL.
C14_WorkerScriptFetchedOnce ==
    \A g1, g2 \in DOMAIN generations :
        (/\ HasFetchedScript(g1) /\ HasFetchedScript(g2)
         /\ ValidRange(SegmentById(generations[g1].id))) =>
            generations[g1].workerScriptUrl = generations[g2].workerScriptUrl

\* C15: when the gifUrl of a segment goes from a handle to another value, or a
\* segment holding a gifUrl is removed, the handle it held is released; the
\* handle that is the gifUrl of a segment in status done is never a released one.
C15_HandlesReleased ==
    [][/\ \A k \in DOMAIN segments :
             (/\ segments[k].gifUrl # None
              /\ \/ segments[k].id \notin IdsOf(segments')
                 \/ SegmentIn(segments', segments[k].id).gifUrl # segments[k].gifUrl) =>
                 segments[k].gifUrl[1] \in released'
       /\ \A k \in DOMAIN segments' :
             (segments'[k].status = "done" /\ segments'[k].gifUrl # None) =>
                 segments'[k].gifUrl[1] \notin released']_vars

\* a segment that held a handle has been removed, and another, in status done,
\* holds its own
C15_Witness ==
    /\ \E g \in DOMAIN generations :
          /\ generations[g].joined = "resolved"
          /\ generations[g].id \notin IdsOf(segments)
          /\ g \in released
    /\ \E k \in DOMAIN segments :
          /\ segments[k].status = "done"
          /\ segments[k].gifUrl # None
          /\ segments[k].gifUrl[1] \notin released

\* the step is an update issued by the editor rendering the k-th segment
EditorUpdateStep(k) ==
    \/ EditorLoadedMetadata(k)
    \/ \E part \in {"start", "end"}, value \in TimeGrid : EditorRangeChange(k, part, value)

\* C16: the segments of the collection have ids distinct from one another, an
\* update issued for one segment leaves every other record as it is, and a
\* removal takes out one record, leaving every other present and unchanged.
C16_SegmentsIsolated ==
    [][/\ \A k, m \in DOMAIN segments' : k # m => segments'[k].id # segments'[m].id
       /\ \A k \in DOMAIN segments :
             EditorUpdateStep(k) =>
                 /\ DOMAIN segments' = DOMAIN segments
                 /\ \A m \in DOMAIN segments : m # k => segments'[m] = segments[m]
       /\ \A i \in IdsOf(segments) :
             RemoveSegment(i) => Len(segments') = Len(segments) - 1]_vars

\* C17: the frames added to the encoder are the selected sub-sequence, in its
\* order, none dropped and none twice, in whatever order the images loaded;
\* once an image has failed to load no frame is added and render is not called.
C17_EncoderGetsSelectedFrames ==
    /\ encoder.rendered => encoder.added = encoder.selectedFrames
    /\ encoder.added # <<>> => encoder.rendered
    /\ encoder.failed # {} => (encoder.added = <<>> /\ ~encoder.rendered)

\* three images that loaded last to first, and the frames added in frames order
C17_Witness ==
    /\ encoder.rendered
    /\ Len(encoder.selectedFrames) = 3
    /\ encoder.loadOrder = <<3, 2, 1>>
    /\ encoder.added = encoder.selectedFrames

\* C18: when the encoding of a generation fails, its result leaves the segment
\* in status error, and the text its caption call returns is never stored in a
\* gifDescription, whichever of the two completes first.
C18_CaptionOfFailedEncodingDiscarded ==
    [][\A g \in DOMAIN generations :
          /\ (/\ GenerationArrivesStep(g)
              /\ generations'[g].gif = "failed"
              /\ generations[g].id \in IdsOf(segments')) =>
                 SegmentIn(segments', generations[g].id).status = "error"
          /\ generations'[g].gif = "failed" =>
                 \A k \in DOMAIN segments' : segments'[k].gifDescription # CaptionText(g)]_vars

\* the caption call of a generation has returned, its encoding has failed, and
\* its segment is in status error
C18_Witness ==
    \E g \in DOMAIN generations :
        /\ generations[g].gif = "failed"
        /\ generations[g].description = "ok"
        /\ generations[g].joined = "rejected"
        /\ generations[g].id \in IdsOf(segments)
        /\ SegmentById(generations[g].id).status = "error"
        /\ ValidRange(SegmentById(generations[g].id))

\* a segment record with its frames and its status left out of the comparison
WithoutFramesAndStatus(segment) == [segment EXCEPT !.frames = <<>>, !.status = "idle"]

\* C19: the completion of an extraction populates frames and sets status to
\* frames_ready and leaves every other field of the segment as it is at that
\* moment, a timeRange edited while the extraction was in flight included.
C19_CompletionKeepsOtherFields ==
    [][\A i \in IdsOf(segments) :
          (/\ ExtractionCompletesStep(i)
           /\ i \in IdsOf(segments')
           /\ ValidRange(SegmentIn(segments, i))) =>
              /\ SegmentIn(segments', i).status = "frames_ready"
              /\ Len(SegmentIn(segments', i).frames) > 0
              /\ WithoutFramesAndStatus(SegmentIn(segments', i)) =
                     WithoutFramesAndStatus(SegmentIn(segments, i))]_vars

\* C20: at most one generation is in flight on a segment at any time.
C20_OneGenerationInFlight ==
    \A g1, g2 \in DOMAIN generations :
        (/\ g1 # g2
         /\ generations[g1].id = generations[g2].id
         /\ InFlight(g1)
         /\ ValidRange(generations[g1].segment)) =>
            ~InFlight(g2)

\* C20, amended: a generation is started on a segment with another one still in
\* flight only after extractFrames was invoked on the segment while one of its
\* generations was in flight; without such a re-extraction at most one is in flight.
C20_OneGenerationPerExtraction ==
    \A g1, g2 \in DOMAIN generations :
        (/\ g1 < g2
         /\ generations[g1].id = generations[g2].id
         /\ InFlight(g1)
         /\ InFlight(g2)) =>
            \E g \in 1..g1 :
                /\ generations[g].id = generations[g1].id
                /\ generations[g].superseded

\* two generations in flight on one segment, the first one from before a re-extraction
C20_Witness ==
    \E g1, g2 \in DOMAIN generations :
        /\ g1 < g2
        /\ generations[g1].id = generations[g2].id
        /\ InFlight(g1)
        /\ InFlight(g2)
        /\ generations[g1].superseded
        /\ ValidRange(generations[g1].segment)

\* no operation is in flight: every encoding and every caption call has
\* settled and no extraction is pending
Quiescent ==
    /\ \A g \in DOMAIN generations :
          /\ generations[g].gif # "pending"
          /\ generations[g].description # "pending"
    /\ \A i \in DOMAIN editors : editors[i].extraction = None

\* C21: once every operation in flight has completed, each handle an encoding
\* created is the gifUrl of a segment of the collection or has been released,
\* the handle of an encoding whose caption call failed included.
C21_NoHandleLeaked ==
    (Quiescent /\ \A k \in DOMAIN segments : ValidRange(segments[k])) =>
        \A g \in DOMAIN generations :
            generations[g].gif = "ok" =>
                \/ g \in released
                \/ \E k \in DOMAIN segments : segments[k].gifUrl = Some(g)

====
